---------------------------- MODULE Spec2Model ----------------------------
(***************************************************************************)
(* Model of the post server actions of the blog application                *)
(* (src/module/posts/actions/post.action.ts): getPosts, getPostsPaginated, *)
(* createPost, getPost, updatePost and deletePost over the persistent      *)
(* store (tables Post, Tag, PostTag).                                      *)
(*                                                                         *)
(* Spec runs createPost, updatePost and deletePost statement by statement  *)
(* (every await is a step, the tag-name callbacks of Promise.all           *)
(* interleave) from the empty store, with getPost and getPosts reading the *)
(* store between any two steps.  PageSpec runs getPostsPaginated, alone    *)
(* and as the post list chains it, over stores of several posts.           *)
(*                                                                         *)
(* Text values (titles, contents, tag names, search queries, session user  *)
(* identifiers) are sequences of one-character strings, so trimming, case  *)
(* folding, substring search and parseInt are computed, not assumed.       *)
(* An optional value (cursor?, searchQuery?, session?.user?.id) is << >>   *)
(* when undefined and <<v>> when it holds v.                               *)
(***************************************************************************)
EXTENDS Integers, Sequences, FiniteSets, TLC

VARIABLES
    posts,      \* table Post: set of [id, title, content, userId]
    postTags,   \* table PostTag: set of [postId, tagId]
    tags,       \* table Tag: set of [id, name]
    nextPostId, \* autoincrement sequence of Post.id
    calls,      \* the server-action calls in flight, one record per call slot
    lastRead,   \* what the latest read operation returned to its caller
    chain,      \* a client's infinite-scroll chain of getPostsPaginated calls
    users       \* table User: set of [id, email, password, name, image]

vars == <<posts, postTags, tags, nextPostId, calls, lastRead, chain, users>>
store == <<posts, postTags, tags, nextPostId, users>>

----------------------------------------------------------------------------
(* Bounds of the model *)

MaxPosts == 1           \* posts ever created in Spec
MaxTagNames == 1        \* longest tagNames argument drawn freely from RawTagNames
MaxPagePosts == 4       \* largest post id in the stores PageSpec starts from
MaxLimit == 2           \* largest limit passed to getPostsPaginated

Calls == {1}            \* call slots of Spec: its mutating calls run one after another
Users == {1, 2}         \* User.id of the registered users

----------------------------------------------------------------------------
(* Text *)

Min(a, b) == IF a < b THEN a ELSE b

IsSpace(ch) == ch = " "

RECURSIVE TrimStart(_)
TrimStart(s) ==
    IF s = << >> THEN s
    ELSE IF IsSpace(Head(s)) THEN TrimStart(Tail(s)) ELSE s

RECURSIVE TrimEnd(_)
TrimEnd(s) ==
    IF s = << >> THEN s
    ELSE IF IsSpace(s[Len(s)]) THEN TrimEnd(SubSeq(s, 1, Len(s) - 1)) ELSE s

\* String.prototype.trim as used on a tag name
Trim(s) == TrimEnd(TrimStart(s))

ToLower(ch) == IF ch = "A" THEN "a" ELSE IF ch = "B" THEN "b" ELSE ch

LowerStr(s) == [i \in 1..Len(s) |-> ToLower(s[i])]

\* { contains: q, mode: "insensitive" }
ContainsInsensitive(s, q) ==
    \E i \in 0..(Len(s) - Len(q)) :
        SubSeq(LowerStr(s), i + 1, i + Len(q)) = LowerStr(q)

\* JavaScript truthiness of an optional string / optional number
TruthyStr(o) == o # << >> /\ o[1] # << >>
TruthyNum(o) == o # << >> /\ o[1] # 0

Digits == <<"0", "1", "2", "3", "4", "5", "6", "7", "8", "9">>
IsDigit(ch) == \E d \in 1..10 : Digits[d] = ch
DigitVal(ch) == (CHOOSE d \in 1..10 : Digits[d] = ch) - 1

RECURSIVE ParseDigits(_, _)
ParseDigits(s, acc) ==
    IF s = << >> \/ ~IsDigit(Head(s)) THEN acc
    ELSE ParseDigits(Tail(s), 10 * acc + DigitVal(Head(s)))

NaN == -1   \* stands for the not-a-number result of parseInt; equal to no User.id

\* parseInt(text): leading whitespace skipped, the longest digit prefix read,
\* whatever follows ignored; NaN when there is no digit prefix
ParseInt(s) ==
    LET t == TrimStart(s)
    IN  IF t = << >> \/ ~IsDigit(Head(t)) THEN NaN ELSE ParseDigits(t, 0)

----------------------------------------------------------------------------
(* The store as the ORM reads it *)

PostById(id) == {p \in posts : p.id = id}
TagByName(name) == {t \in tags : t.name = name}
TagIdsOf(pid) == {pt.tagId : pt \in {x \in postTags : x.postId = pid}}
TagsOfPost(pid) == {t \in tags : t.id \in TagIdsOf(pid)}

\* include: { user: {select}, tags: { include: { tag: true } } }
Hydrate(p) ==
    [id |-> p.id, title |-> p.title, content |-> p.content,
     userId |-> p.userId, tags |-> TagsOfPost(p.id)]

RECURSIVE DescSeq(_)
\* orderBy: { id: "desc" }
DescSeq(S) ==
    IF S = {} THEN << >>
    ELSE LET m == CHOOSE x \in S : \A y \in S : y <= x
         IN  <<m>> \o DescSeq(S \ {m})

\* the where clause without its tags branch
MatchesWhere_NoTagNames(p, searchQuery) ==
    IF TruthyStr(searchQuery)
    THEN \/ ContainsInsensitive(p.title, searchQuery[1])
         \/ ContainsInsensitive(p.content, searchQuery[1])
    ELSE TRUE

\* the where clause built from searchQuery (undefined when searchQuery is falsy)
MatchesWhere(p, searchQuery) ==
    IF TruthyStr(searchQuery)
    THEN \/ ContainsInsensitive(p.title, searchQuery[1])
         \/ ContainsInsensitive(p.content, searchQuery[1])
         \/ \E t \in TagsOfPost(p.id) : ContainsInsensitive(t.name, searchQuery[1])
    ELSE TRUE

\* prisma.post.findMany({ take, skip, cursor, where, orderBy: { id: "desc" } }):
\* the rows matching where, from the cursor row on in the given order (no row
\* at all when the cursor names no stored post), minus the first skip rows,
\* cut to take rows.
FindManyPostIds(searchQuery, take, skip, cursorId) ==
    LET matching == {p.id : p \in {x \in posts : MatchesWhere(x, searchQuery)}}
        fromCursor ==
            IF cursorId = << >> THEN matching
            ELSE IF PostById(cursorId[1]) = {} THEN {}
            ELSE {i \in matching : i <= cursorId[1]}
        ordered == DescSeq(fromCursor)
        rest == SubSeq(ordered, skip + 1, Len(ordered))
    IN  SubSeq(rest, 1, Min(take, Len(rest)))

HydrateIds(ids) ==
    [i \in 1..Len(ids) |-> Hydrate(CHOOSE p \in posts : p.id = ids[i])]

\* getPosts(): every post, newest id first
GetPostsResult == HydrateIds(DescSeq({p.id : p \in posts}))

\* getPostsPaginated with skip: 0 whatever the cursor (the cursor row is
\* returned again at the head of the next page)
GetPostsPaginated_NoSkip(limit, cursor, searchQuery) ==
    LET found == HydrateIds(FindManyPostIds(
                    searchQuery,
                    limit + 1,
                    0,
                    IF TruthyNum(cursor) THEN cursor ELSE << >>))
        hasNextPage == Len(found) > limit
        items == IF hasNextPage THEN SubSeq(found, 1, limit) ELSE found
    IN  IF hasNextPage /\ Len(items) = 0
        THEN [ok |-> FALSE, error |-> "TypeError"]
        ELSE [ok |-> TRUE,
              items |-> items,
              nextCursor |-> IF hasNextPage THEN <<items[Len(items)].id>> ELSE << >>,
              hasNextPage |-> hasNextPage]

\* getPostsPaginated returning every fetched row, the extra one included
GetPostsPaginated_NoSlice(limit, cursor, searchQuery) ==
    LET found == HydrateIds(FindManyPostIds(
                    searchQuery,
                    limit + 1,
                    IF TruthyNum(cursor) THEN 1 ELSE 0,
                    IF TruthyNum(cursor) THEN cursor ELSE << >>))
        hasNextPage == Len(found) > limit
        items == found
    IN  IF hasNextPage /\ Len(items) = 0
        THEN [ok |-> FALSE, error |-> "TypeError"]
        ELSE [ok |-> TRUE,
              items |-> items,
              nextCursor |-> IF hasNextPage THEN <<items[Len(items)].id>> ELSE << >>,
              hasNextPage |-> hasNextPage]

\* getPostsPaginated whose nextCursor is the id of the extra row fetched to
\* detect a further page, a row that is not among the returned items
GetPostsPaginated_CursorOfExtraRow(limit, cursor, searchQuery) ==
    LET found == HydrateIds(FindManyPostIds(
                    searchQuery,
                    limit + 1,
                    IF TruthyNum(cursor) THEN 1 ELSE 0,
                    IF TruthyNum(cursor) THEN cursor ELSE << >>))
        hasNextPage == Len(found) > limit
        items == IF hasNextPage THEN SubSeq(found, 1, limit) ELSE found
    IN  [ok |-> TRUE,
         items |-> items,
         nextCursor |-> IF hasNextPage THEN <<found[Len(found)].id>> ELSE << >>,
         hasNextPage |-> hasNextPage]

\* getPostsPaginated({limit, cursor, searchQuery})
GetPostsPaginatedResult(limit, cursor, searchQuery) ==
    LET found == HydrateIds(FindManyPostIds(
                    searchQuery,
                    limit + 1,
                    IF TruthyNum(cursor) THEN 1 ELSE 0,
                    IF TruthyNum(cursor) THEN cursor ELSE << >>))
        hasNextPage == Len(found) > limit
        items == IF hasNextPage THEN SubSeq(found, 1, limit) ELSE found
    IN  IF hasNextPage /\ Len(items) = 0
        THEN [ok |-> FALSE, error |-> "TypeError"]   \* items[-1].id of undefined
        ELSE [ok |-> TRUE,
              items |-> items,
              nextCursor |-> IF hasNextPage THEN <<items[Len(items)].id>> ELSE << >>,
              hasNextPage |-> hasNextPage]

\* getPost(id)
GetPostResult(id) ==
    IF PostById(id) = {}
    THEN [ok |-> FALSE, error |-> "NotFound"]
    ELSE [ok |-> TRUE, post |-> Hydrate(CHOOSE p \in posts : p.id = id)]

----------------------------------------------------------------------------
(* Inputs of the server actions *)

RECURSIVE IntToText(_)
\* user.id.toString(): the decimal text the authentication layer puts in the session
IntToText(n) ==
    IF n < 10 THEN <<Digits[n + 1]>>
    ELSE IntToText(n \div 10) \o <<Digits[(n % 10) + 1]>>

\* session?.user?.id as auth() yields it: absent, or the text of a user's id
Sessions == {<< >>} \cup {<<IntToText(u)>> : u \in Users}

\* bcryptjs hash(secret, rounds): a one-way digest that carries its salt
Hash(secret, salt) == <<"$", salt>> \o secret

\* bcryptjs compare(secret, hash): the secret hashed again with the salt the
\* stored hash carries gives the stored hash
Compare(secret, hash) == Len(hash) >= 2 /\ hash = Hash(secret, hash[2])

\* the row of a user who signed up with a password: name and image are
\* optional texts, the password column holds the hash
UserRow(id, email, password) ==
    [id |-> id, email |-> email, password |-> password,
     name |-> <<"n">> \o IntToText(id), image |-> << >>, accounts |-> {}]

\* the User table while posts are worked on: every user of Users has signed up
RegisteredUsers ==
    {UserRow(u, <<"u">> \o IntToText(u), <<Hash(<<"p">>, "x")>>) : u \in Users}

TitleContents ==
    { [title |-> <<"A">>, content |-> <<"b">>],
      [title |-> <<"b">>, content |-> <<"a", "B">>] }

RawTagNames == { <<"A">>, <<" ", "a", " ">>, <<" ">> }

SeqsUpTo(S, n) == UNION {[1..k -> S] : k \in 0..n}

\* the tagNames of the specification's own example
ExampleTagNames == << <<"A">>, <<" ", "a", " ">>, <<"A">> >>

\* two distinct names, in either order
TwoTagNames ==
    { << <<"A">>, <<" ", "a", " ">> >>, << <<" ", "a", " ">>, <<"A">> >> }

TagNameLists ==
    SeqsUpTo(RawTagNames, MaxTagNames) \cup {ExampleTagNames} \cup TwoTagNames

PostIdArgs == 1..MaxPosts

----------------------------------------------------------------------------
(* A server-action call: its arguments, its position and its local values *)

\* no reader's result is on its way to a caller: a step of a mutating call is
\* taken only then (a read changes nothing, so no interleaving is lost)
NoRead == [op |-> "none"]

IdleCall ==
    [op |-> "idle", pc |-> "idle", session |-> << >>, id |-> 0,
     title |-> << >>, content |-> << >>, tagNames |-> << >>,
     userId |-> 0, cb |-> << >>, conn |-> << >>, result |-> "none",
     accesses |-> 0, writes |-> 0, pre |-> << >>, newId |-> 0,
     name |-> << >>, email |-> << >>, password |-> << >>, hashed |-> << >>]

\* tag-name callbacks of a call that have not settled yet
PendingCb(c) == {i \in 1..Len(calls[c].cb) : calls[c].cb[i] \in {"find", "create"}}

\* StartCallbacks without the return for an empty trimmed name
StartCallbacks_NoEmptyCheck(tagNames) ==
    [i \in 1..Len(tagNames) |-> "find"]

\* tagNames.map(async ...) up to the first await of each callback:
\* trim, return null for an empty name, otherwise issue tag.findUnique
StartCallbacks(tagNames) ==
    [i \in 1..Len(tagNames) |->
        IF Trim(tagNames[i]) = << >> THEN "null" ELSE "find"]

NoConn(tagNames) == [i \in 1..Len(tagNames) |-> 0]

\* tagConnections.filter(conn => conn !== null)
ValidTagConnections(c) ==
    LET idx == {i \in 1..Len(calls[c].cb) : calls[c].cb[i] = "done"}
    IN  [k \in 1..Cardinality(idx) |->
            calls[c].conn[CHOOSE i \in idx :
                Cardinality({j \in idx : j <= i}) = k]]

\* @@unique on (postId, tagId): a nested create of the rows (pid, conn[k])
\* is refused when two of them coincide or one is stored already
PostTagUniqueViolation(pid, conn) ==
    \/ \E i, j \in 1..Len(conn) : i < j /\ conn[i] = conn[j]
    \/ \E i \in 1..Len(conn) : [postId |-> pid, tagId |-> conn[i]] \in postTags

\* onDelete: Cascade of PostTag.post: the rows that survive deleting post pid
CascadeDelete(pid) == {pt \in postTags : pt.postId # pid}

NewPostTags(pid, conn) == {[postId |-> pid, tagId |-> conn[k]] : k \in 1..Len(conn)}

NextTagId == Cardinality(tags) + 1

\* how a call ends: "ok", or the error it throws: "LoginRequired", "NotFound"
\* and "Forbidden" are the action's own errors, "UniqueConstraint",
\* "RecordNotFound" and "ForeignKey" are the ORM's refusals of a statement,
\* "StorageError" is any other failure of the store
Finish(c, res) ==
    [calls EXCEPT ![c].pc = "done", ![c].result = res]

----------------------------------------------------------------------------
(* The steps of createPost, updatePost and deletePost *)

\* a caller invokes a server action
StartCall(c, op, session, id, tc, tagNames) ==
    /\ lastRead = NoRead
    /\ calls[c].op = "idle"
    /\ op = "createPost" => nextPostId <= MaxPosts
    /\ calls' = [calls EXCEPT ![c] =
            [IdleCall EXCEPT !.op = op, !.pc = "auth", !.session = session,
                             !.id = id, !.title = tc.title,
                             !.content = tc.content, !.tagNames = tagNames,
                             !.pre = <<[posts |-> posts, postTags |-> postTags,
                                        tags |-> tags]>>]]
    /\ UNCHANGED <<store, lastRead, chain>>

StartCreate(c) ==
    /\ calls[c].op = "idle" /\ lastRead = NoRead
    /\ \E s \in Sessions, tc \in TitleContents, tn \in TagNameLists :
            StartCall(c, "createPost", s, 0, tc, tn)

StartUpdate(c) ==
    /\ calls[c].op = "idle" /\ lastRead = NoRead
    /\ \E s \in Sessions, id \in PostIdArgs, tc \in TitleContents,
          tn \in TagNameLists :
            StartCall(c, "updatePost", s, id, tc, tn)

StartDelete(c) ==
    /\ calls[c].op = "idle" /\ lastRead = NoRead
    /\ \E s \in Sessions, id \in PostIdArgs :
            StartCall(c, "deletePost", s, id,
                      [title |-> << >>, content |-> << >>], << >>)

\* Auth without the throw: a call with no session user id goes on, its userId
\* being parseInt(undefined) = NaN
Auth_NoSessionCheck(c) ==
    /\ lastRead = NoRead
    /\ calls[c].pc = "auth"
    /\ calls' = [calls EXCEPT
            ![c].userId = IF TruthyStr(calls[c].session)
                          THEN ParseInt(calls[c].session[1]) ELSE NaN,
            ![c].pc = IF calls[c].op = "createPost" THEN "tags" ELSE "find",
            ![c].cb = IF calls[c].op = "createPost"
                      THEN StartCallbacks(calls[c].tagNames) ELSE << >>,
            ![c].conn = IF calls[c].op = "createPost"
                        THEN NoConn(calls[c].tagNames) ELSE << >>]
    /\ UNCHANGED <<store, lastRead, chain>>

\* const session = await auth(); if (!session?.user?.id) throw ...;
\* const userId = parseInt(session.user.id);
Auth(c) ==
    /\ lastRead = NoRead
    /\ calls[c].pc = "auth"
    /\ IF ~TruthyStr(calls[c].session)
       THEN calls' = Finish(c, "LoginRequired")
       ELSE calls' = [calls EXCEPT
                ![c].userId = ParseInt(calls[c].session[1]),
                ![c].pc = IF calls[c].op = "createPost" THEN "tags" ELSE "find",
                ![c].cb = IF calls[c].op = "createPost"
                          THEN StartCallbacks(calls[c].tagNames) ELSE << >>,
                ![c].conn = IF calls[c].op = "createPost"
                            THEN NoConn(calls[c].tagNames) ELSE << >>]
    /\ UNCHANGED <<store, lastRead, chain>>

\* FindPost without the ownership check
FindPost_NoOwnerCheck(c) ==
    /\ lastRead = NoRead
    /\ calls[c].pc = "find"
    /\ LET found == PostById(calls[c].id)
           seen == [calls EXCEPT ![c].accesses = @ + 1]
       IN  IF found = {}
           THEN calls' = [seen EXCEPT ![c].pc = "done", ![c].result = "NotFound"]
           ELSE calls' = [seen EXCEPT
                    ![c].pc = IF calls[c].op = "updatePost"
                              THEN "deleteMany" ELSE "write"]
    /\ UNCHANGED <<store, lastRead, chain>>

\* FindPost with the old associations deleted before the ownership check
FindPost_DeleteBeforeCheck(c) ==
    /\ lastRead = NoRead
    /\ calls[c].pc = "find"
    /\ LET found == PostById(calls[c].id)
           seen == [calls EXCEPT ![c].accesses = @ + 1]
       IN  IF found = {}
           THEN /\ calls' = [seen EXCEPT ![c].pc = "done", ![c].result = "NotFound"]
                /\ UNCHANGED postTags
           ELSE LET post == CHOOSE p \in found : TRUE
                IN  /\ postTags' = IF calls[c].op = "updatePost"
                                   THEN {pt \in postTags : pt.postId # calls[c].id}
                                   ELSE postTags
                    /\ IF post.userId # calls[c].userId
                       THEN calls' = [seen EXCEPT ![c].pc = "done",
                                                  ![c].result = "Forbidden"]
                       ELSE calls' = [seen EXCEPT
                                ![c].pc = IF calls[c].op = "updatePost"
                                          THEN "deleteMany" ELSE "write"]
    /\ UNCHANGED <<posts, tags, nextPostId, users, lastRead, chain>>

\* FindPost without the existence check: a missing post is taken as the
\* caller's own
FindPost_NoNotFoundCheck(c) ==
    /\ lastRead = NoRead
    /\ calls[c].pc = "find"
    /\ LET found == PostById(calls[c].id)
           seen == [calls EXCEPT ![c].accesses = @ + 1]
       IN  IF \E post \in found : post.userId # calls[c].userId
           THEN calls' = [seen EXCEPT ![c].pc = "done", ![c].result = "Forbidden"]
           ELSE calls' = [seen EXCEPT
                    ![c].pc = IF calls[c].op = "updatePost"
                              THEN "deleteMany" ELSE "write"]
    /\ UNCHANGED <<store, lastRead, chain>>

\* const post = await prisma.post.findUnique({where: {id}});
\* if (!post) throw NotFound; if (post.userId !== userId) throw Forbidden
FindPost(c) ==
    /\ lastRead = NoRead
    /\ calls[c].pc = "find"
    /\ LET found == PostById(calls[c].id)
           seen == [calls EXCEPT ![c].accesses = @ + 1]
       IN  IF found = {}
           THEN calls' = [seen EXCEPT ![c].pc = "done", ![c].result = "NotFound"]
           ELSE LET post == CHOOSE p \in found : TRUE
                IN  IF post.userId # calls[c].userId
                    THEN calls' = [seen EXCEPT ![c].pc = "done",
                                               ![c].result = "Forbidden"]
                    ELSE calls' = [seen EXCEPT
                            ![c].pc = IF calls[c].op = "updatePost"
                                      THEN "deleteMany" ELSE "write"]
    /\ UNCHANGED <<store, lastRead, chain>>

\* DeleteMany deleting nothing: the associations of before the call stay
DeleteMany_KeepOld(c) ==
    /\ lastRead = NoRead
    /\ calls[c].pc = "deleteMany"
    /\ calls' = [calls EXCEPT
            ![c].pc = "tags",
            ![c].accesses = @ + 1,
            ![c].cb = StartCallbacks(calls[c].tagNames),
            ![c].conn = NoConn(calls[c].tagNames)]
    /\ UNCHANGED <<store, lastRead, chain>>

\* await prisma.postTag.deleteMany({where: {postId: id}}); then the tag-name
\* callbacks are started
DeleteMany(c) ==
    /\ lastRead = NoRead
    /\ calls[c].pc = "deleteMany"
    /\ postTags' = {pt \in postTags : pt.postId # calls[c].id}
    /\ calls' = [calls EXCEPT
            ![c].pc = "tags",
            ![c].accesses = @ + 1,
            ![c].writes = @ + 1,
            ![c].cb = StartCallbacks(calls[c].tagNames),
            ![c].conn = NoConn(calls[c].tagNames)]
    /\ UNCHANGED <<posts, tags, nextPostId, users, lastRead, chain>>

\* let tag = await prisma.tag.findUnique({where: {name: trimmedName}})
CbFind(c, i) ==
    /\ lastRead = NoRead
    /\ i \in 1..Len(calls[c].cb)
    /\ calls[c].cb[i] = "find"
    /\ LET found == TagByName(Trim(calls[c].tagNames[i]))
       IN  calls' = [calls EXCEPT
                ![c].accesses = @ + 1,
                ![c].cb[i] = IF found = {} THEN "create" ELSE "done",
                ![c].conn[i] = IF found = {} THEN 0
                               ELSE (CHOOSE t \in found : TRUE).id]
    /\ UNCHANGED <<store, lastRead, chain>>

\* CbCreate on a Tag table whose name is not unique: the create always goes
\* through
CbCreate_NoUniqueName(c, i) ==
    /\ lastRead = NoRead
    /\ i \in 1..Len(calls[c].cb)
    /\ calls[c].cb[i] = "create"
    /\ tags' = tags \cup {[id |-> NextTagId, name |-> Trim(calls[c].tagNames[i])]}
    /\ calls' = [calls EXCEPT
            ![c].accesses = @ + 1,
            ![c].writes = @ + 1,
            ![c].cb[i] = "done",
            ![c].conn[i] = NextTagId]
    /\ UNCHANGED <<posts, postTags, nextPostId, users, lastRead, chain>>

\* if (!tag) tag = await prisma.tag.create({data: {name: trimmedName}});
\* Tag.name is unique: the create is refused when the name is stored by now,
\* the callback rejects and with it Promise.all and the call
CbCreate(c, i) ==
    /\ lastRead = NoRead
    /\ i \in 1..Len(calls[c].cb)
    /\ calls[c].cb[i] = "create"
    /\ LET name == Trim(calls[c].tagNames[i])
       IN  IF TagByName(name) # {}
           THEN /\ calls' = [calls EXCEPT
                        ![c].accesses = @ + 1,
                        ![c].cb[i] = "failed",
                        ![c].pc = "done",
                        ![c].result = IF @ = "none" THEN "UniqueConstraint" ELSE @]
                /\ UNCHANGED tags
           ELSE /\ tags' = tags \cup {[id |-> NextTagId, name |-> name]}
                /\ calls' = [calls EXCEPT
                        ![c].accesses = @ + 1,
                        ![c].writes = @ + 1,
                        ![c].cb[i] = "done",
                        ![c].conn[i] = NextTagId]
    /\ UNCHANGED <<posts, postTags, nextPostId, users, lastRead, chain>>

\* CreateWrite storing the post without its tag associations
CreateWrite_NoTags(c) ==
    /\ lastRead = NoRead
    /\ calls[c].op = "createPost"
    /\ calls[c].pc = "tags"
    /\ PendingCb(c) = {}
    /\ posts' = posts \cup
            {[id |-> nextPostId, title |-> calls[c].title,
              content |-> calls[c].content, userId |-> calls[c].userId]}
    /\ nextPostId' = nextPostId + 1
    /\ calls' = [Finish(c, "ok") EXCEPT
            ![c].accesses = @ + 1, ![c].writes = @ + 1,
            ![c].newId = nextPostId]
    /\ UNCHANGED <<postTags, tags, users, lastRead, chain>>

\* CreateWrite storing the post under the first user instead of the user of
\* the session
CreateWrite_OwnerIsFirstUser(c) ==
    /\ lastRead = NoRead
    /\ calls[c].op = "createPost"
    /\ calls[c].pc = "tags"
    /\ PendingCb(c) = {}
    /\ LET conn == ValidTagConnections(c)
           pid == nextPostId
       IN  IF calls[c].userId \notin Users \/ PostTagUniqueViolation(pid, conn)
           THEN /\ calls' = [Finish(c, IF calls[c].userId \notin Users
                                       THEN "ForeignKey" ELSE "UniqueConstraint")
                                EXCEPT ![c].accesses = @ + 1]
                /\ UNCHANGED store
           ELSE /\ posts' = posts \cup
                        {[id |-> pid, title |-> calls[c].title,
                          content |-> calls[c].content, userId |-> 1]}
                /\ postTags' = postTags \cup NewPostTags(pid, conn)
                /\ nextPostId' = nextPostId + 1
                /\ calls' = [Finish(c, "ok") EXCEPT
                        ![c].accesses = @ + 1, ![c].writes = @ + 1,
                        ![c].newId = pid]
                /\ UNCHANGED tags
    /\ UNCHANGED <<users, lastRead, chain>>

\* CreateWrite as two statements, the post row and then its associations: a
\* refused association leaves the post row and the associations before it
CreateWrite_NotAtomic(c) ==
    /\ lastRead = NoRead
    /\ calls[c].op = "createPost"
    /\ calls[c].pc = "tags"
    /\ PendingCb(c) = {}
    /\ LET conn == ValidTagConnections(c)
           pid == nextPostId
       IN  IF calls[c].userId \notin Users
           THEN /\ calls' = [Finish(c, "ForeignKey") EXCEPT ![c].accesses = @ + 1]
                /\ UNCHANGED store
           ELSE /\ posts' = posts \cup
                        {[id |-> pid, title |-> calls[c].title,
                          content |-> calls[c].content, userId |-> calls[c].userId]}
                /\ postTags' = postTags \cup NewPostTags(pid, conn)
                /\ nextPostId' = nextPostId + 1
                /\ calls' = [Finish(c, IF PostTagUniqueViolation(pid, conn)
                                       THEN "UniqueConstraint" ELSE "ok") EXCEPT
                        ![c].accesses = @ + 1, ![c].writes = @ + 1,
                        ![c].newId = pid]
                /\ UNCHANGED tags
    /\ UNCHANGED <<users, lastRead, chain>>

\* await prisma.post.create({data: {title, content, userId,
\*                                  tags: {create: validTagConnections}}})
CreateWrite(c) ==
    /\ lastRead = NoRead
    /\ calls[c].op = "createPost"
    /\ calls[c].pc = "tags"
    /\ PendingCb(c) = {}
    /\ LET conn == ValidTagConnections(c)
           pid == nextPostId
       IN  IF calls[c].userId \notin Users \/ PostTagUniqueViolation(pid, conn)
           THEN /\ calls' = [Finish(c, IF calls[c].userId \notin Users
                                       THEN "ForeignKey" ELSE "UniqueConstraint")
                                EXCEPT ![c].accesses = @ + 1]
                /\ UNCHANGED store
           ELSE /\ posts' = posts \cup
                        {[id |-> pid, title |-> calls[c].title,
                          content |-> calls[c].content, userId |-> calls[c].userId]}
                /\ postTags' = postTags \cup NewPostTags(pid, conn)
                /\ nextPostId' = nextPostId + 1
                /\ calls' = [Finish(c, "ok") EXCEPT
                        ![c].accesses = @ + 1, ![c].writes = @ + 1,
                        ![c].newId = pid]
                /\ UNCHANGED tags
    /\ UNCHANGED <<users, lastRead, chain>>

\* await prisma.post.update({where: {id}, data: {title, content,
\*                                  tags: {create: validTagConnections}}})
UpdateWrite(c) ==
    /\ lastRead = NoRead
    /\ calls[c].op = "updatePost"
    /\ calls[c].pc = "tags"
    /\ PendingCb(c) = {}
    /\ LET conn == ValidTagConnections(c)
           pid == calls[c].id
       IN  IF PostById(pid) = {} \/ PostTagUniqueViolation(pid, conn)
           THEN /\ calls' = [Finish(c, IF PostById(pid) = {}
                                       THEN "RecordNotFound" ELSE "UniqueConstraint")
                                EXCEPT ![c].accesses = @ + 1]
                /\ UNCHANGED store
           ELSE /\ posts' = {IF p.id = pid
                             THEN [p EXCEPT !.title = calls[c].title,
                                            !.content = calls[c].content]
                             ELSE p : p \in posts}
                /\ postTags' = postTags \cup NewPostTags(pid, conn)
                /\ calls' = [Finish(c, "ok") EXCEPT
                        ![c].accesses = @ + 1, ![c].writes = @ + 1]
                /\ UNCHANGED <<tags, nextPostId>>
    /\ UNCHANGED <<users, lastRead, chain>>

\* DeleteWrite removing the post row only: its associations stay
DeleteWrite_NoCascade(c) ==
    /\ lastRead = NoRead
    /\ calls[c].op = "deletePost"
    /\ calls[c].pc = "write"
    /\ PostById(calls[c].id) # {}
    /\ posts' = {p \in posts : p.id # calls[c].id}
    /\ calls' = [Finish(c, "ok") EXCEPT
            ![c].accesses = @ + 1, ![c].writes = @ + 1]
    /\ UNCHANGED <<postTags, tags, nextPostId, users, lastRead, chain>>

\* DeleteWrite that also removes the tags no association references any more
DeleteWrite_DropUnusedTags(c) ==
    /\ lastRead = NoRead
    /\ calls[c].op = "deletePost"
    /\ calls[c].pc = "write"
    /\ PostById(calls[c].id) # {}
    /\ posts' = {p \in posts : p.id # calls[c].id}
    /\ postTags' = CascadeDelete(calls[c].id)
    /\ tags' = {t \in tags : \E pt \in CascadeDelete(calls[c].id) : pt.tagId = t.id}
    /\ calls' = [Finish(c, "ok") EXCEPT
            ![c].accesses = @ + 1, ![c].writes = @ + 1]
    /\ UNCHANGED <<nextPostId, users, lastRead, chain>>

\* await prisma.post.delete({where: {id}})
DeleteWrite(c) ==
    /\ lastRead = NoRead
    /\ calls[c].op = "deletePost"
    /\ calls[c].pc = "write"
    /\ LET pid == calls[c].id
       IN  IF PostById(pid) = {}
           THEN /\ calls' = [Finish(c, "RecordNotFound") EXCEPT ![c].accesses = @ + 1]
                /\ UNCHANGED store
           ELSE /\ posts' = {p \in posts : p.id # pid}
                /\ postTags' = CascadeDelete(pid)
                /\ calls' = [Finish(c, "ok") EXCEPT
                        ![c].accesses = @ + 1, ![c].writes = @ + 1]
                /\ UNCHANGED <<tags, nextPostId>>
    /\ UNCHANGED <<users, lastRead, chain>>

\* the persistent store fails a statement of the call (or the caller abandons
\* the call while the statement is awaited): the statement has no effect and
\* the call ends with the storage failure
StorageFail(c) ==
    /\ lastRead = NoRead
    /\ \/ calls[c].pc \in {"find", "deleteMany", "write"}
       \/ calls[c].pc = "tags" /\ PendingCb(c) = {}
    /\ calls' = [Finish(c, "StorageError") EXCEPT ![c].accesses = @ + 1]
    /\ UNCHANGED <<store, lastRead, chain>>

\* the same for the statement a tag-name callback awaits
CbStorageFail(c, i) ==
    /\ lastRead = NoRead
    /\ i \in PendingCb(c)
    /\ calls' = [calls EXCEPT
            ![c].accesses = @ + 1,
            ![c].cb[i] = "failed",
            ![c].pc = "done",
            ![c].result = IF @ = "none" THEN "StorageError" ELSE @]
    /\ UNCHANGED <<store, lastRead, chain>>

\* the call has returned or thrown and none of its callbacks is still running:
\* the slot is free for the next invocation
Return(c) ==
    /\ lastRead = NoRead
    /\ calls[c].pc = "done"
    /\ PendingCb(c) = {}
    /\ calls' = [calls EXCEPT ![c] = IdleCall]
    /\ UNCHANGED <<store, lastRead, chain>>

----------------------------------------------------------------------------
(* Readers: each is one query against the store *)

GetPost(id) ==
    /\ lastRead = NoRead
    /\ lastRead' = [op |-> "getPost", id |-> id, res |-> GetPostResult(id)]
    /\ UNCHANGED <<store, calls, chain>>

GetPosts ==
    /\ lastRead = NoRead
    /\ lastRead' = [op |-> "getPosts", res |-> GetPostsResult]
    /\ UNCHANGED <<store, calls, chain>>

\* the reader's caller has received the result
Deliver ==
    /\ lastRead # NoRead
    /\ lastRead' = NoRead
    /\ UNCHANGED <<store, calls, chain>>

NoChain == [active |-> FALSE]

----------------------------------------------------------------------------
(* PageSpec: getPostsPaginated, alone and chained by the post list's        *)
(* useInfiniteQuery, over stores of up to MaxPagePosts posts                *)

PageTag == [id |-> 1, name |-> <<"a">>]

\* what a stored post of the page stores looks like: its title, its content
\* and whether it carries the tag "a"
PageKinds ==
    { [title |-> <<"A">>, content |-> <<"c">>, tagged |-> FALSE],
      [title |-> <<"b">>, content |-> <<"c">>, tagged |-> FALSE],
      [title |-> <<"b">>, content |-> <<"c">>, tagged |-> TRUE],
      [title |-> <<"c">>, content |-> <<"c", "A", "b">>, tagged |-> FALSE] }

PageOwner == 1

SearchQueries ==
    { << >>, << << >> >>, << <<"a">> >>, << <<"B">> >>, << <<"a", "B">> >> }

Limits == 0..MaxLimit

Cursors == {<< >>} \cup {<<n>> : n \in 0..MaxPagePosts}

\* the stores PageSpec starts from: posts 1..MaxPagePosts were created by
\* PageOwner, some were deleted since, and the tag "a" exists
PageInit ==
    \E ids \in SUBSET (1..MaxPagePosts) :
      \E kind \in [ids -> PageKinds] :
        /\ posts = {[id |-> i, title |-> kind[i].title,
                     content |-> kind[i].content,
                     userId |-> PageOwner] : i \in ids}
        /\ postTags = {[postId |-> i, tagId |-> PageTag.id] :
                            i \in {j \in ids : kind[j].tagged}}
        /\ tags = {PageTag}
        /\ nextPostId = MaxPagePosts + 1
        /\ calls = [c \in Calls |-> IdleCall]
        /\ lastRead = NoRead
        /\ chain = NoChain
        /\ users = RegisteredUsers

\* a caller invokes getPostsPaginated with arguments of its choice
PagedRead(limit, cursor, searchQuery) ==
    /\ lastRead = NoRead
    /\ ~chain.active
    /\ lastRead' = [op |-> "getPostsPaginated", limit |-> limit,
                    cursor |-> cursor, searchQuery |-> searchQuery,
                    res |-> GetPostsPaginatedResult(limit, cursor, searchQuery)]
    /\ UNCHANGED <<store, calls, chain>>

\* useInfiniteQuery: queryFn({pageParam}) = getPostsPaginated({limit, cursor:
\* pageParam, searchQuery}); the fetched page is appended to data.pages and
\* getNextPageParam(lastPage) = lastPage.nextCursor
ChainFetch(limit, cursor, searchQuery, itemsSoFar, pagesSoFar, intact) ==
    LET res == GetPostsPaginatedResult(limit, cursor, searchQuery)
    IN  chain' = [active |-> TRUE, limit |-> limit, searchQuery |-> searchQuery,
                  cursor |-> cursor, page |-> res,
                  items |-> IF res.ok THEN itemsSoFar \o res.items ELSE itemsSoFar,
                  next |-> IF res.ok THEN res.nextCursor ELSE << >>,
                  pages |-> pagesSoFar + 1,
                  fresh |-> TRUE, intact |-> intact]

\* the first page: initialPageParam is undefined
ChainStart ==
    /\ lastRead = NoRead
    /\ ~chain.active
    /\ \E limit \in Limits \ {0}, q \in SearchQueries :
            ChainFetch(limit, << >>, q, << >>, 0, TRUE)
    /\ UNCHANGED <<store, calls, lastRead>>

\* fetchNextPage(): offered while the last page returned a nextCursor
ChainNext ==
    /\ chain.active
    /\ chain.next # << >>
    /\ ChainFetch(chain.limit, chain.next, chain.searchQuery,
                  chain.items, chain.pages, chain.intact)
    /\ UNCHANGED <<store, calls, lastRead>>

\* the query is dropped (gcTime: 0) and the list starts over
ChainReset ==
    /\ chain.active
    /\ chain' = NoChain
    /\ UNCHANGED <<store, calls, lastRead>>

\* deletePost(id) run to its end by the post's owner between two page fetches
PageDelete(session, id) ==
    /\ lastRead = NoRead
    /\ TruthyStr(session)
    /\ \E p \in PostById(id) : p.userId = ParseInt(session[1])
    /\ posts' = {p \in posts : p.id # id}
    /\ postTags' = CascadeDelete(id)
    /\ chain' = IF chain.active
                THEN [chain EXCEPT !.fresh = FALSE, !.intact = FALSE]
                ELSE chain
    /\ UNCHANGED <<tags, nextPostId, users, calls, lastRead>>

PageNext ==
    \/ \E limit \in Limits, cursor \in Cursors, q \in SearchQueries :
            PagedRead(limit, cursor, q)
    \/ Deliver
    \/ ChainStart
    \/ ChainNext
    \/ ChainReset
    \/ \E s \in Sessions, id \in 1..MaxPagePosts : PageDelete(s, id)

PageSpec == PageInit /\ [][PageNext]_vars

----------------------------------------------------------------------------
(* Spec: overlapping server-action calls and readers on one store *)

Init ==
    /\ posts = {}
    /\ postTags = {}
    /\ tags = {}
    /\ nextPostId = 1
    /\ calls = [c \in Calls |-> IdleCall]
    /\ lastRead = NoRead
    /\ chain = NoChain
    /\ users = RegisteredUsers

Next ==
    \/ \E c \in DOMAIN calls : StartCreate(c)
    \/ \E c \in DOMAIN calls : StartUpdate(c)
    \/ \E c \in DOMAIN calls : StartDelete(c)
    \/ \E c \in DOMAIN calls : Auth(c)
    \/ \E c \in DOMAIN calls : FindPost(c)
    \/ \E c \in DOMAIN calls : DeleteMany(c)
    \/ \E c \in DOMAIN calls : \E i \in DOMAIN calls[c].cb : CbFind(c, i)
    \/ \E c \in DOMAIN calls : \E i \in DOMAIN calls[c].cb : CbCreate(c, i)
    \/ \E c \in DOMAIN calls : CreateWrite(c)
    \/ \E c \in DOMAIN calls : UpdateWrite(c)
    \/ \E c \in DOMAIN calls : DeleteWrite(c)
    \/ \E c \in DOMAIN calls : StorageFail(c)
    \/ \E c \in DOMAIN calls : \E i \in DOMAIN calls[c].cb : CbStorageFail(c, i)
    \/ \E c \in DOMAIN calls : Return(c)
    \/ \E id \in PostIdArgs : GetPost(id)
    \/ GetPosts
    \/ Deliver

Spec == Init /\ [][Next]_vars

----------------------------------------------------------------------------
(* RaceSpec: two server-action calls in flight at once. Each await of a      *)
(* call is a step, and the steps of the two calls interleave freely.         *)

RaceCalls == {1, 2}

RacePost == [id |-> 1, title |-> <<"b">>, content |-> <<"c">>, userId |-> 1]

RaceTagNames ==
    { << <<"A">> >>, << <<" ", "a", " ">> >>, << <<" ", "a", " ">>, <<"A">> >> }

RaceTitleContents ==
    { [title |-> <<"A">>, content |-> <<"b">>],
      [title |-> <<"B">>, content |-> <<"c">>] }

\* one post of user 1 is stored, without tags; no tag is stored
RaceInit ==
    /\ posts = {RacePost}
    /\ postTags = {}
    /\ tags = {}
    /\ nextPostId = RacePost.id + 1
    /\ calls = [c \in RaceCalls |-> IdleCall]
    /\ lastRead = NoRead
    /\ chain = NoChain
    /\ users = RegisteredUsers

\* a signed-in user invokes createPost, or updatePost on the stored post
RaceStart(c) ==
    /\ calls[c].op = "idle"
    /\ \E op \in {"createPost", "updatePost"}, s \in Sessions \ {<< >>},
          tc \in RaceTitleContents, tn \in RaceTagNames :
            calls' = [calls EXCEPT ![c] =
                [IdleCall EXCEPT !.op = op, !.pc = "auth", !.session = s,
                     !.id = IF op = "updatePost" THEN RacePost.id ELSE 0,
                     !.title = tc.title, !.content = tc.content, !.tagNames = tn,
                     !.pre = <<[posts |-> posts, postTags |-> postTags,
                                tags |-> tags]>>]]
    /\ UNCHANGED <<store, lastRead, chain>>

RaceNext ==
    \/ \E c \in DOMAIN calls : RaceStart(c)
    \/ \E c \in DOMAIN calls : Auth(c)
    \/ \E c \in DOMAIN calls : FindPost(c)
    \/ \E c \in DOMAIN calls : DeleteMany(c)
    \/ \E c \in DOMAIN calls : \E i \in DOMAIN calls[c].cb : CbFind(c, i)
    \/ \E c \in DOMAIN calls : \E i \in DOMAIN calls[c].cb : CbCreate(c, i)
    \/ \E c \in DOMAIN calls : CreateWrite(c)
    \/ \E c \in DOMAIN calls : UpdateWrite(c)

RaceSpec == RaceInit /\ [][RaceNext]_vars


----------------------------------------------------------------------------
(* OwnerSpec: updatePost and deletePost called with session user ids of any  *)
(* text, on a store of one post per user                                     *)

\* session.user.id texts: the ids of the two users, and texts that are not
\* the decimal text of an id
SessionTexts ==
    { <<"1">>, <<"2">>, <<"1", "a">>, <<"a", "1">>, <<" ", "1">>, <<"0", "2">> }

OwnerTagNames == { << >>, << <<" ", "a", " ">> >> }

\* user 1 owns post 1, which carries the tag "A"; user 2 owns post 2
OwnerInit ==
    /\ posts = {[id |-> u, title |-> <<"b">>, content |-> <<"c">>, userId |-> u] :
                    u \in Users}
    /\ tags = {[id |-> 1, name |-> <<"A">>]}
    /\ postTags = {[postId |-> 1, tagId |-> 1]}
    /\ nextPostId = Cardinality(Users) + 1
    /\ calls = [c \in Calls |-> IdleCall]
    /\ lastRead = NoRead
    /\ chain = NoChain
    /\ users = RegisteredUsers

\* updatePost or deletePost is invoked under a session whose user id is any
\* of the texts
OwnerStart(c) ==
    /\ calls[c].op = "idle"
    /\ \E op \in {"updatePost", "deletePost"}, t \in SessionTexts, id \in Users,
          tn \in OwnerTagNames :
            /\ op = "deletePost" => tn = << >>
            /\ calls' = [calls EXCEPT ![c] =
                    [IdleCall EXCEPT !.op = op, !.pc = "auth", !.session = <<t>>,
                         !.id = id, !.title = <<"A">>, !.content = <<"b">>,
                         !.tagNames = tn,
                         !.pre = <<[posts |-> posts, postTags |-> postTags,
                                    tags |-> tags]>>]]
    /\ UNCHANGED <<store, lastRead, chain>>

OwnerNext ==
    \/ \E c \in DOMAIN calls : OwnerStart(c)
    \/ \E c \in DOMAIN calls : Auth(c)
    \/ \E c \in DOMAIN calls : FindPost(c)
    \/ \E c \in DOMAIN calls : DeleteMany(c)
    \/ \E c \in DOMAIN calls : \E i \in DOMAIN calls[c].cb : CbFind(c, i)
    \/ \E c \in DOMAIN calls : \E i \in DOMAIN calls[c].cb : CbCreate(c, i)
    \/ \E c \in DOMAIN calls : UpdateWrite(c)
    \/ \E c \in DOMAIN calls : DeleteWrite(c)
    \/ \E c \in DOMAIN calls : Return(c)

OwnerSpec == OwnerInit /\ [][OwnerNext]_vars

----------------------------------------------------------------------------
(* AuthSpec: the credentials provider's authorize and the sign-in page over  *)
(* User tables of users with and without a stored password hash             *)

Emails == { <<"a">>, <<"A">>, <<"b">> }
Secrets == { <<"p">>, <<"q">> }
Salts == { "x", "y" }

\* User.password: null for a user created by an OAuth sign-in, else a hash
StoredPasswords == {<< >>} \cup {<<Hash(s, salt)>> : s \in Secrets, salt \in Salts}

\* credentials?.email and credentials?.password as authorize may receive
\* them: undefined, the empty string, or a text
CredentialEmails == {<< >>, << << >> >>} \cup {<<e>> : e \in Emails}
CredentialSecrets == {<< >>, << << >> >>} \cup {<<x>> : x \in Secrets}

\* a stored user; user 2 has a profile image
AuthUserRow(id, email, password) ==
    [UserRow(id, email, password) EXCEPT
        !.image = IF id = 2 THEN << <<"i">> >> ELSE << >>]

\* account.provider as the signIn callback may receive it
Providers == { "credentials", "google", "github" }

\* User.accounts: the OAuth accounts linked to a stored user
LinkedAccounts == SUBSET {[provider |-> "google"]}

AuthInit ==
    \E ids \in SUBSET Users :
      \E em \in [ids -> Emails], pw \in [ids -> StoredPasswords],
         ac \in [ids -> LinkedAccounts] :
        /\ \A i, j \in ids : i # j => em[i] # em[j]
        /\ \A i \in ids : pw[i] = << >> => ac[i] # {}
        /\ users = {[AuthUserRow(i, em[i], pw[i]) EXCEPT !.accounts = ac[i]] :
                        i \in ids}
        /\ posts = {}
        /\ postTags = {}
        /\ tags = {}
        /\ nextPostId = 1
        /\ calls = [c \in Calls |-> IdleCall]
        /\ lastRead = NoRead
        /\ chain = NoChain

\* authorize returning the user without comparing the secret with the hash
AuthorizeResult_NoCompare(credentials) ==
    IF ~TruthyStr(credentials.email) \/ ~TruthyStr(credentials.password)
    THEN << >>
    ELSE LET found == {u \in users : u.email = credentials.email[1]}
         IN  IF found = {} THEN << >>
             ELSE LET user == CHOOSE u \in found : TRUE
                  IN  IF ~TruthyStr(user.password) THEN << >>
                      ELSE <<[id |-> IntToText(user.id), email |-> user.email,
                              name |-> user.name, image |-> user.image]>>

\* authorize telling the caller that no user has the email
AuthorizeResult_TellsNoUser(credentials) ==
    IF ~TruthyStr(credentials.email) \/ ~TruthyStr(credentials.password)
    THEN << >>
    ELSE LET found == {u \in users : u.email = credentials.email[1]}
         IN  IF found = {} THEN <<[error |-> "NoSuchUser"]>>
             ELSE LET user == CHOOSE u \in found : TRUE
                  IN  IF ~TruthyStr(user.password) THEN << >>
                      ELSE IF ~Compare(credentials.password[1], user.password[1])
                           THEN << >>
                           ELSE <<[id |-> IntToText(user.id), email |-> user.email,
                                   name |-> user.name, image |-> user.image]>>

\* authorize(credentials): null (<< >>) or the principal descriptor
AuthorizeResult(credentials) ==
    IF ~TruthyStr(credentials.email) \/ ~TruthyStr(credentials.password)
    THEN << >>
    ELSE LET found == {u \in users : u.email = credentials.email[1]}
         IN  IF found = {} THEN << >>
             ELSE LET user == CHOOSE u \in found : TRUE
                  IN  IF ~TruthyStr(user.password) THEN << >>
                      ELSE IF ~Compare(credentials.password[1], user.password[1])
                           THEN << >>
                           ELSE <<[id |-> IntToText(user.id), email |-> user.email,
                                   name |-> user.name, image |-> user.image]>>

\* what signIn("credentials", {..., redirect: false}) resolves to on the
\* page: an error code when authorize returned null
SignInResult(authorized) ==
    [error |-> IF authorized = << >> THEN << <<"CredentialsSignin">> >> ELSE << >>]

\* the toast onSubmit shows for the result of signIn
OnSubmitToast(result) ==
    IF TruthyStr(result.error) THEN "LoginFailedCheckEmailAndPassword"
    ELSE "LoginSucceeded"

\* authorize is called with credentials of the caller's choice
Authorize(credentials) ==
    /\ lastRead = NoRead
    /\ lastRead' = [op |-> "authorize", credentials |-> credentials,
                    res |-> AuthorizeResult(credentials),
                    toast |-> "none"]
    /\ UNCHANGED <<store, calls, chain>>

\* the sign-in form is submitted with an email and a password that passed
\* its validation
OnSubmit(data) ==
    /\ lastRead = NoRead
    /\ LET credentials == [email |-> <<data.email>>, password |-> <<data.password>>]
           authorized == AuthorizeResult(credentials)
       IN  lastRead' = [op |-> "signIn", credentials |-> credentials,
                        res |-> authorized,
                        toast |-> OnSubmitToast(SignInResult(authorized))]
    /\ UNCHANGED <<store, calls, chain>>

\* whether the signIn callback, given this user and account, gets as far as
\* prisma.user.findUnique
SignInCallbackLooksUp(user, account) ==
    /\ account # << >>
    /\ account[1].provider # "credentials"
    /\ account[1].provider # ""
    /\ TruthyStr(user.email)

\* the signIn callback refusing a user who has the email but no account of
\* the provider (the library's behaviour without the callback)
SignInCallback_DenyUnlinked(user, account, lookupFails) ==
    IF account # << >> /\ account[1].provider = "credentials" THEN TRUE
    ELSE IF SignInCallbackLooksUp(user, account)
    THEN IF lookupFails THEN FALSE
         ELSE LET found == {u \in users : u.email = user.email[1]}
              IN  IF found # {}
                  THEN LET existingUser == CHOOSE u \in found : TRUE
                       IN  \E acc \in existingUser.accounts :
                               acc.provider = account[1].provider
                  ELSE TRUE
    ELSE TRUE

\* callbacks.signIn({user, account}): TRUE allows the sign-in, FALSE denies
\* it; lookupFails says whether prisma.user.findUnique throws when called
SignInCallback(user, account, lookupFails) ==
    IF account # << >> /\ account[1].provider = "credentials" THEN TRUE
    ELSE IF SignInCallbackLooksUp(user, account)
    THEN IF lookupFails THEN FALSE
         ELSE LET found == {u \in users : u.email = user.email[1]}
              IN  IF found # {}
                  THEN LET existingUser == CHOOSE u \in found : TRUE
                           hasProviderAccount ==
                               \E acc \in existingUser.accounts :
                                   acc.provider = account[1].provider
                       IN  IF hasProviderAccount THEN TRUE ELSE TRUE
                  ELSE TRUE
    ELSE TRUE

\* the library calls the signIn callback for a sign-in through some provider,
\* with the profile the provider gave; the user lookup may fail
SignInCallbackCall(user, account) ==
    /\ lastRead = NoRead
    /\ \E lookupFails \in BOOLEAN :
            /\ lookupFails => SignInCallbackLooksUp(user, account)
            /\ lastRead' = [op |-> "callbacks.signIn", user |-> user,
                            account |-> account, lookupFailed |-> lookupFails,
                            res |-> SignInCallback(user, account, lookupFails)]
    /\ UNCHANGED <<store, calls, chain>>

AuthNext ==
    \/ \E e \in CredentialEmails, x \in CredentialSecrets :
            Authorize([email |-> e, password |-> x])
    \/ \E e \in Emails, x \in Secrets : OnSubmit([email |-> e, password |-> x])
    \/ \E e \in CredentialEmails :
       \E account \in {<< >>} \cup {<<[provider |-> pr]>> : pr \in Providers} :
            SignInCallbackCall([email |-> e], account)
    \/ Deliver

AuthSpec == AuthInit /\ [][AuthNext]_vars

----------------------------------------------------------------------------
(* SignupSpec: two signup calls in flight at once, each await a step *)

SignupCalls == {1, 2}

MinPasswordLength == 6

\* z.string().email(): something before and something after an "@"
IsEmail(text) == \E i \in 2..(Len(text) - 1) : text[i] = "@"

\* signupSchema.parse({name, email, password}) succeeds
SignupSchemaAccepts(name, email, password) ==
    /\ Len(name) >= 1
    /\ IsEmail(email)
    /\ Len(password) >= MinPasswordLength

SignupNames == { <<"n">>, << >> }
SignupEmails == { <<"a", "@", "b">>, <<"A", "@", "b">>, <<"a", "b">> }
SignupPasswords == { <<"p", "p", "p", "p", "p", "p">>, <<"p">> }

\* autoincrement of User.id
NextUserId ==
    IF users = {} THEN 1
    ELSE (CHOOSE u \in users : \A v \in users : v.id <= u.id).id + 1

UserByEmail(email) == {u \in users : u.email = email}

\* one user has signed up, with the email "A@b"
SignupInit ==
    /\ users = {UserRow(1, <<"A", "@", "b">>,
                        <<Hash(<<"p", "p", "p", "p", "p", "p">>, "x")>>)}
    /\ posts = {}
    /\ postTags = {}
    /\ tags = {}
    /\ nextPostId = 1
    /\ calls = [c \in SignupCalls |-> IdleCall]
    /\ lastRead = NoRead
    /\ chain = NoChain

\* the signup form (or any caller) invokes signup(name, email, password)
SignupStart(c) ==
    /\ calls[c].op = "idle"
    /\ \E name \in SignupNames, email \in SignupEmails, password \in SignupPasswords :
            calls' = [calls EXCEPT ![c] =
                [IdleCall EXCEPT !.op = "signup", !.pc = "parse",
                     !.name = name, !.email = email, !.password = password,
                     !.pre = <<[users |-> users]>>]]
    /\ UNCHANGED <<store, lastRead, chain>>

\* const validatedData = signupSchema.parse(...): a ZodError is caught and
\* returned as the validation failure
SignupParse(c) ==
    /\ calls[c].op = "signup" /\ calls[c].pc = "parse"
    /\ calls' = IF SignupSchemaAccepts(calls[c].name, calls[c].email,
                                       calls[c].password)
                THEN [calls EXCEPT ![c].pc = "find"]
                ELSE Finish(c, "ValidationError")
    /\ UNCHANGED <<store, lastRead, chain>>

\* const existingUser = await prisma.user.findUnique({where: {email}});
\* if (existingUser) return the duplicate-email failure
SignupFind(c) ==
    /\ calls[c].op = "signup" /\ calls[c].pc = "find"
    /\ calls' = IF UserByEmail(calls[c].email) # {}
                THEN [Finish(c, "DuplicateEmail") EXCEPT ![c].accesses = @ + 1]
                ELSE [calls EXCEPT ![c].pc = "hash", ![c].accesses = @ + 1]
    /\ UNCHANGED <<store, lastRead, chain>>

\* const hashedPassword = await hashPassword(validatedData.password)
SignupHash(c) ==
    /\ calls[c].op = "signup" /\ calls[c].pc = "hash"
    /\ \E salt \in Salts :
            calls' = [calls EXCEPT ![c].pc = "create",
                                   ![c].hashed = Hash(calls[c].password, salt)]
    /\ UNCHANGED <<store, lastRead, chain>>

\* SignupCreate on a User table whose email is not unique
SignupCreate_NoUniqueEmail(c) ==
    /\ calls[c].op = "signup" /\ calls[c].pc = "create"
    /\ users' = users \cup
            {[UserRow(NextUserId, calls[c].email, <<calls[c].hashed>>)
                EXCEPT !.name = calls[c].name]}
    /\ calls' = [Finish(c, "Success") EXCEPT
            ![c].accesses = @ + 1, ![c].writes = @ + 1]
    /\ UNCHANGED <<posts, postTags, tags, nextPostId, lastRead, chain>>

\* SignupCreate whose catch has no branch for the code P2002: a refused
\* create ends as the generic failure
SignupCreate_NoP2002Branch(c) ==
    /\ calls[c].op = "signup" /\ calls[c].pc = "create"
    /\ IF UserByEmail(calls[c].email) # {}
       THEN /\ calls' = [Finish(c, "SignupFailed") EXCEPT ![c].accesses = @ + 1]
            /\ UNCHANGED users
       ELSE /\ users' = users \cup
                    {[UserRow(NextUserId, calls[c].email, <<calls[c].hashed>>)
                        EXCEPT !.name = calls[c].name]}
            /\ calls' = [Finish(c, "Success") EXCEPT
                    ![c].accesses = @ + 1, ![c].writes = @ + 1]
    /\ UNCHANGED <<posts, postTags, tags, nextPostId, lastRead, chain>>

\* await prisma.user.create({data: {name, email, password: hashedPassword}}):
\* User.email is unique, a create for a taken email is refused with the code
\* P2002, which the catch turns into the duplicate-email failure
SignupCreate(c) ==
    /\ calls[c].op = "signup" /\ calls[c].pc = "create"
    /\ IF UserByEmail(calls[c].email) # {}
       THEN /\ calls' = [Finish(c, "DuplicateEmail") EXCEPT ![c].accesses = @ + 1]
            /\ UNCHANGED users
       ELSE /\ users' = users \cup
                    {[UserRow(NextUserId, calls[c].email, <<calls[c].hashed>>)
                        EXCEPT !.name = calls[c].name]}
            /\ calls' = [Finish(c, "Success") EXCEPT
                    ![c].accesses = @ + 1, ![c].writes = @ + 1]
    /\ UNCHANGED <<posts, postTags, tags, nextPostId, lastRead, chain>>

\* the store fails the lookup or the create: the catch logs the error and
\* returns the generic failure
SignupStorageFail(c) ==
    /\ calls[c].op = "signup" /\ calls[c].pc \in {"find", "create"}
    /\ calls' = [Finish(c, "SignupFailed") EXCEPT
            ![c].accesses = @ + 1, ![c].cb = <<"failed">>]
    /\ UNCHANGED <<store, lastRead, chain>>

SignupNext ==
    \/ \E c \in DOMAIN calls : SignupStart(c)
    \/ \E c \in DOMAIN calls : SignupParse(c)
    \/ \E c \in DOMAIN calls : SignupFind(c)
    \/ \E c \in DOMAIN calls : SignupHash(c)
    \/ \E c \in DOMAIN calls : SignupCreate(c)
    \/ \E c \in DOMAIN calls : SignupStorageFail(c)

SignupSpec == SignupInit /\ [][SignupNext]_vars

----------------------------------------------------------------------------
(* Properties of pagination (checked under PageSpec) *)

\* what getPosts returns, filtered by the search query: every matching post,
\* newest id first
FilteredGetPosts(searchQuery) ==
    SelectSeq(GetPostsResult, LAMBDA h : MatchesWhere(h, searchQuery))

IsPrefix(a, b) == Len(a) <= Len(b) /\ a = SubSeq(b, 1, Len(a))

\* C1: with no write since the chain's first call, the pages fetched so far
\* concatenate to a prefix of the filtered getPosts list (nothing repeated,
\* nothing skipped), and once no nextCursor is returned they concatenate to
\* the whole list.
C1_ChainEqualsFilteredGetPosts ==
    (chain.active /\ chain.intact) =>
        /\ chain.page.ok
        /\ IsPrefix(chain.items, FilteredGetPosts(chain.searchQuery))
        /\ chain.next = << >> =>
                chain.items = FilteredGetPosts(chain.searchQuery)

\* a chain of three pages under a search query that filters some post out,
\* run to its end with no write in between
C1_Witness ==
    /\ chain.active /\ chain.intact /\ chain.next = << >>
    /\ chain.pages >= 3
    /\ TruthyStr(chain.searchQuery)
    /\ Len(chain.items) < Cardinality(posts)

\* the posts matching the filter positioned strictly after the cursor in
\* descending-id order (all matching posts when no cursor is given)
AfterCursor(cursor, searchQuery) ==
    {p \in posts : /\ MatchesWhere(p, searchQuery)
                   /\ cursor = << >> \/ p.id < cursor[1]}

\* C4: a page the post list fetches (first page without cursor, later pages
\* with the nextCursor of the page before) has hasNextPage = true if and only
\* if more than limit matching posts are positioned after the cursor.
C4_HasNextPageIffMoreAfterCursor ==
    (chain.active /\ chain.fresh /\ chain.page.ok) =>
        (chain.page.hasNextPage <=>
            Cardinality(AfterCursor(chain.cursor, chain.searchQuery)) > chain.limit)

\* the paginated results in view: the one a direct caller just received and
\* the page the chain fetched last (fresh while no write followed the fetch)
PagesInView ==
    {[limit |-> lastRead.limit, cursor |-> lastRead.cursor,
      searchQuery |-> lastRead.searchQuery, res |-> lastRead.res,
      fresh |-> TRUE] :
        x \in IF lastRead.op = "getPostsPaginated" THEN {1} ELSE {}}
    \cup
    {[limit |-> chain.limit, cursor |-> chain.cursor,
      searchQuery |-> chain.searchQuery, res |-> chain.page,
      fresh |-> chain.fresh] :
        x \in IF chain.active THEN {1} ELSE {}}

\* C5: for limit >= 1 a page has at most limit items, carries a nextCursor
\* exactly when hasNextPage is true, and that nextCursor is the id of the
\* last returned item.
C5_PageShape ==
    \A v \in PagesInView :
        v.limit >= 1 =>
            /\ v.res.ok
            /\ Len(v.res.items) <= v.limit
            /\ (v.res.nextCursor # << >>) <=> v.res.hasNextPage
            /\ v.res.hasNextPage =>
                    v.res.nextCursor = <<v.res.items[Len(v.res.items)].id>>

\* a call with a cursor that returned a full page and announced a further one
C5_Witness ==
    \E v \in PagesInView :
        /\ v.limit >= 2 /\ TruthyNum(v.cursor)
        /\ v.res.ok /\ v.res.hasNextPage /\ Len(v.res.items) = v.limit

\* text q is a case-insensitive substring of the title, of the content or of
\* the name of a tag of the hydrated post h
QueryMatches(h, q) ==
    \E text \in {h.title, h.content} \cup {t.name : t \in h.tags} :
        ContainsInsensitive(text, q)

\* the ids of the stored posts a search query lets through
IdsMatching(searchQuery) ==
    {p.id : p \in {x \in posts :
        ~TruthyStr(searchQuery) \/ QueryMatches(Hydrate(x), searchQuery[1])}}

ItemIds(items) == {items[i].id : i \in 1..Len(items)}

\* C17: with a search query, every returned post has the query as a
\* case-insensitive substring of its title, its content or one of its tag
\* names, and every such post is returned (by the call without cursor when
\* they fit in one page, by the chain of calls otherwise); without a search
\* query or with the empty one, every stored post is returned.
C17_SearchFilter ==
    /\ \A v \in PagesInView :
            v.res.ok =>
                /\ \A i \in 1..Len(v.res.items) :
                        TruthyStr(v.searchQuery) =>
                            QueryMatches(v.res.items[i], v.searchQuery[1])
                /\ ( /\ ~TruthyNum(v.cursor) /\ ~v.res.hasNextPage
                      /\ v.fresh ) =>
                        ItemIds(v.res.items) = IdsMatching(v.searchQuery)
    /\ (chain.active /\ chain.intact /\ chain.next = << >>) =>
            ItemIds(chain.items) = IdsMatching(chain.searchQuery)

\* the chain for the query "a" has returned a post matching by its title
\* only, one by its content only and one by its tag only, and has left one
\* post out
C17_Witness ==
    /\ chain.active /\ chain.intact /\ chain.next = << >>
    /\ chain.searchQuery = << <<"a">> >>
    /\ Len(chain.items) = 3 /\ Cardinality(posts) = 4
    /\ \E i \in 1..3 : chain.items[i].title = <<"b">>
    /\ \E i \in 1..3 : chain.items[i].title = <<"c">>
    /\ \E i \in 1..3 : chain.items[i].title = <<"A">>

\* the items of the page before the chain's last page
PreviousPage ==
    LET pageItems == IF chain.page.ok THEN chain.page.items ELSE << >>
        before == SubSeq(chain.items, 1, Len(chain.items) - Len(pageItems))
    IN  SubSeq(before, Len(before) - Min(chain.limit, Len(before)) + 1, Len(before))

\* C18: the cursor of every page the chain fetches after its first is the id
\* of an item of the page before, and that page holds only posts with ids
\* smaller than the cursor.
C18_ChainCursor ==
    (chain.active /\ chain.cursor # << >>) =>
        /\ chain.cursor[1] \in ItemIds(PreviousPage)
        /\ chain.page.ok
        /\ \A id \in ItemIds(chain.page.items) : id < chain.cursor[1]

\* the chain's third page, fetched after a post was deleted, is full
C18_Witness ==
    /\ chain.active /\ chain.pages = 3 /\ ~chain.intact
    /\ chain.page.ok /\ Len(chain.page.items) = chain.limit

\* C30: for every limit >= 0, limit = 0 included, and whatever is stored,
\* getPostsPaginated returns a page (it raises no error) and the page has at
\* most limit items.
C30_AnyLimitReturns ==
    \A v \in PagesInView :
        v.limit >= 0 =>
            /\ v.res.ok
            /\ Len(v.res.items) <= v.limit

----------------------------------------------------------------------------
(* Properties of createPost, updatePost, deletePost and getPost (checked     *)
(* under Spec)                                                              *)

\* the authenticated principal of call c is the user with id uid
PrincipalIs(c, uid) ==
    TruthyStr(calls[c].session) /\ calls[c].session[1] = IntToText(uid)

StoreNow == [posts |-> posts, postTags |-> postTags, tags |-> tags]

\* the store, the target post and its tags as they were when call c was made
PreStore(c) == calls[c].pre[1]
PrePost(c) == {p \in PreStore(c).posts : p.id = calls[c].id}
PreTagIds(c) ==
    {pt.tagId : pt \in {x \in PreStore(c).postTags : x.postId = calls[c].id}}
PreTagNames(c) == {t.name : t \in {x \in PreStore(c).tags : x.id \in PreTagIds(c)}}

\* the trimmed, non-empty names among tagNames
NormalizedNames(tagNames) ==
    {Trim(tagNames[i]) : i \in 1..Len(tagNames)} \ {<< >>}

TagNamesOfPost(pid) == {t.name : t \in TagsOfPost(pid)}

AssocOf(pid) == {pt \in postTags : pt.postId = pid}

\* C2: whenever a step changes a post's title or content, changes its tag
\* associations or removes the post, the step belongs to a call whose
\* authenticated principal is the post's owner.
C2_OnlyOwnerMutates ==
    [][\A p \in posts :
          (p \notin posts' \/ AssocOf(p.id)' # AssocOf(p.id)) =>
              \E c \in DOMAIN calls :
                  calls'[c] # calls[c] /\ PrincipalIs(c, p.userId)]_vars

\* an owner's updatePost or deletePost has gone through
C2_Witness ==
    \E c \in DOMAIN calls :
        /\ calls[c].op \in {"updatePost", "deletePost"}
        /\ calls[c].result = "ok"
        /\ PrePost(c) # {}

\* C3: an updatePost on an existing post by an authenticated principal who is
\* not its owner ends with the Forbidden error, and posts, associations and
\* tags are as they were before the call.
C3_ForbiddenUpdateChangesNothing ==
    \A c \in DOMAIN calls :
        ( /\ calls[c].op = "updatePost" /\ calls[c].pc = "done"
          /\ TruthyStr(calls[c].session)
          /\ \E p \in PrePost(c) : ~PrincipalIs(c, p.userId)
          /\ calls[c].result # "StorageError" ) =>
            /\ calls[c].result = "Forbidden"
            /\ StoreNow = PreStore(c)

\* a non-owner's updatePost, naming new tags, on a post that has a tag
C3_Witness ==
    \E c \in DOMAIN calls :
        /\ calls[c].op = "updatePost" /\ calls[c].result = "Forbidden"
        /\ PreTagIds(c) # {}
        /\ NormalizedNames(calls[c].tagNames) # {}
        /\ \E p \in PrePost(c) : p.title # calls[c].title

\* C6: a createPost, updatePost or deletePost made without a session user id
\* never touches the store and ends with the login-required error.
C6_LoginRequiredBeforeStore ==
    \A c \in DOMAIN calls :
        (calls[c].op # "idle" /\ ~TruthyStr(calls[c].session)) =>
            /\ calls[c].pc \in {"auth", "done"}
            /\ calls[c].accesses = 0
            /\ StoreNow = PreStore(c)
            /\ calls[c].pc = "done" => calls[c].result = "LoginRequired"

\* an unauthenticated updatePost on a stored post has been refused
C6_Witness ==
    \E c \in DOMAIN calls :
        /\ calls[c].op = "updatePost" /\ ~TruthyStr(calls[c].session)
        /\ calls[c].result = "LoginRequired"
        /\ PostById(calls[c].id) # {}

C7_Inv ==
    /\ (lastRead.op = "getPost" /\ PostById(lastRead.id) = {}) =>
            lastRead.res = [ok |-> FALSE, error |-> "NotFound"]
    /\ \A c \in DOMAIN calls :
        ( /\ calls[c].op \in {"updatePost", "deletePost"} /\ calls[c].pc = "done"
          /\ TruthyStr(calls[c].session)
          /\ PrePost(c) = {}
          /\ calls[c].result # "StorageError" ) =>
            /\ calls[c].result = "NotFound"
            /\ StoreNow = PreStore(c)

\* C7: getPost on an identifier no post has returns the NotFound error, and
\* no read changes the store; an authenticated updatePost or deletePost on
\* such an identifier ends with NotFound and the store as it was before.
C7_NotFoundChangesNothing ==
    /\ []C7_Inv
    /\ [][lastRead' # lastRead => store' = store]_vars

\* deletePost by an authenticated principal on the id of a post deleted
\* before, followed by a getPost on the same id
C7_Witness ==
    \E c \in DOMAIN calls :
        /\ calls[c].op = "deletePost" /\ calls[c].result = "NotFound"
        /\ nextPostId > calls[c].id
        /\ tags # {}
        /\ lastRead.op = "getPost" /\ lastRead.id = calls[c].id
        /\ ~lastRead.res.ok

\* some name occurs twice among the trimmed, non-empty tag names
HasRepeatedName(tagNames) ==
    \E i, j \in 1..Len(tagNames) :
        i < j /\ Trim(tagNames[i]) # << >> /\ Trim(tagNames[i]) = Trim(tagNames[j])

\* C8: a createPost by an authenticated principal whose tag names repeat a
\* name after trimming succeeds (the store not failing), and the new post is
\* associated exactly once with each distinct trimmed name:
\* ["A", " a ", "A"] gives two associations, to "A" and to "a".
C8_RepeatedNamesCollapse ==
    \A c \in DOMAIN calls :
        ( /\ calls[c].op = "createPost" /\ calls[c].pc = "done"
          /\ TruthyStr(calls[c].session)
          /\ HasRepeatedName(calls[c].tagNames)
          /\ calls[c].result # "StorageError" ) =>
            /\ calls[c].result = "ok"
            /\ TagNamesOfPost(calls[c].newId) = NormalizedNames(calls[c].tagNames)
            /\ Cardinality(AssocOf(calls[c].newId))
                    = Cardinality(NormalizedNames(calls[c].tagNames))

\* the hydrated posts the reader's caller is looking at
SeenPosts ==
    IF lastRead.op = "getPost" /\ lastRead.res.ok THEN {lastRead.res.post}
    ELSE IF lastRead.op = "getPosts"
         THEN {lastRead.res[i] : i \in 1..Len(lastRead.res)}
         ELSE {}

\* C9: while an updatePost that replaces a non-empty tag set by a non-empty
\* tag set is in progress, a reader sees the post with its complete old tag
\* set or its complete new one.
C9_ReadersSeeOldOrNewTags ==
    \A c \in DOMAIN calls :
        ( /\ calls[c].op = "updatePost" /\ calls[c].pc # "done"
          /\ PreTagNames(c) # {}
          /\ NormalizedNames(calls[c].tagNames) # {} ) =>
            \A h \in SeenPosts :
                h.id = calls[c].id =>
                    {t.name : t \in h.tags} \in
                        {PreTagNames(c), NormalizedNames(calls[c].tagNames)}

\* C10: an updatePost that fails after the existence and ownership checks
\* leaves the post's title, content and tag associations as they were before
\* the call.
C10_FailedUpdateLeavesPost ==
    \A c \in DOMAIN calls :
        ( /\ calls[c].op = "updatePost" /\ calls[c].pc = "done"
          /\ calls[c].result \notin {"ok", "LoginRequired", "NotFound", "Forbidden"}
          /\ \E p \in PrePost(c) : PrincipalIs(c, p.userId) ) =>
            /\ PostById(calls[c].id) = PrePost(c)
            /\ TagIdsOf(calls[c].id) = PreTagIds(c)

\* C11: when an updatePost by the owner has succeeded, the post has the given
\* title and content, its id and owner are those of before the call, and its
\* associations are, once each, the tags named by the trimmed non-empty
\* entries of tagNames: no association of before the call is left unless its
\* tag is named again.
C11_UpdateReplacesTagSet ==
    \A c \in DOMAIN calls :
        (calls[c].op = "updatePost" /\ calls[c].result = "ok") =>
            /\ \E p \in PrePost(c) :
                    /\ PrincipalIs(c, p.userId)
                    /\ PostById(calls[c].id) =
                            {[id |-> p.id, title |-> calls[c].title,
                              content |-> calls[c].content, userId |-> p.userId]}
            /\ TagNamesOfPost(calls[c].id) = NormalizedNames(calls[c].tagNames)
            /\ Cardinality(AssocOf(calls[c].id))
                    = Cardinality(NormalizedNames(calls[c].tagNames))
            /\ \A t \in TagsOfPost(calls[c].id) :
                    t.name \in NormalizedNames(calls[c].tagNames)

\* a successful updatePost that changed the title and replaced a tag by
\* another one
C11_Witness ==
    \E c \in DOMAIN calls :
        /\ calls[c].op = "updatePost" /\ calls[c].result = "ok"
        /\ PreTagNames(c) # {}
        /\ NormalizedNames(calls[c].tagNames) # {}
        /\ PreTagNames(c) \cap NormalizedNames(calls[c].tagNames) = {}
        /\ \E p \in PrePost(c) : p.title # calls[c].title

\* C12: once a createPost by principal u has succeeded, getPost on the id of
\* the new post returns a post with the given title and content, owner u and
\* the trimmed non-empty names of tagNames as its tag names, whatever their
\* order and whether or not the tags were stored before.
C12_CreateThenGetPost ==
    \A c \in DOMAIN calls :
        ( /\ calls[c].op = "createPost" /\ calls[c].result = "ok"
          /\ lastRead.op = "getPost" /\ lastRead.id = calls[c].newId ) =>
            /\ lastRead.res.ok
            /\ lastRead.res.post.id = calls[c].newId
            /\ lastRead.res.post.title = calls[c].title
            /\ lastRead.res.post.content = calls[c].content
            /\ PrincipalIs(c, lastRead.res.post.userId)
            /\ {t.name : t \in lastRead.res.post.tags}
                    = NormalizedNames(calls[c].tagNames)

\* getPost after a successful createPost with two names given in the order
\* "a" then "A", one of which was stored as a tag before the call
C12_Witness ==
    \E c \in DOMAIN calls :
        /\ calls[c].op = "createPost" /\ calls[c].result = "ok"
        /\ calls[c].tagNames = << <<" ", "a", " ">>, <<"A">> >>
        /\ PreStore(c).tags # {}
        /\ Cardinality(tags) = 2
        /\ lastRead.op = "getPost" /\ lastRead.id = calls[c].newId

\* C24: a createPost call that has not succeeded (it is still running, or it
\* has failed at whatever statement) has stored no post and no association;
\* and a post a createPost call has stored carries an association for every
\* trimmed non-empty name of the call's tagNames.
C24_CreateIsAtomic ==
    \A c \in DOMAIN calls :
        calls[c].op = "createPost" =>
            /\ calls[c].result # "ok" =>
                    /\ posts = PreStore(c).posts
                    /\ postTags = PreStore(c).postTags
            /\ \A p \in posts \ PreStore(c).posts :
                    /\ p.id = calls[c].newId
                    /\ TagNamesOfPost(p.id) = NormalizedNames(calls[c].tagNames)
                    /\ Cardinality(AssocOf(p.id))
                            = Cardinality(NormalizedNames(calls[c].tagNames))

\* a createPost call has created a tag and then failed at post.create, which
\* was refused for the association its tagNames ask for twice: the new tag is
\* stored, no post and no association is
C24_Witness ==
    \E c \in DOMAIN calls :
        /\ calls[c].op = "createPost" /\ calls[c].pc = "done"
        /\ calls[c].result = "UniqueConstraint"
        /\ \A i \in 1..Len(calls[c].cb) : calls[c].cb[i] \in {"done", "null"}
        /\ tags # PreStore(c).tags
        /\ posts = {} /\ postTags = {}

\* C28: a step that stores a new post is a step of a createPost call whose
\* authenticated principal (the user id of its session) is the post's owner,
\* and no step changes the owner of a stored post.
C28_OwnerIsCreator ==
    [][\A p \in posts' :
          IF \E q \in posts : q.id = p.id
          THEN \A q \in posts : q.id = p.id => q.userId = p.userId
          ELSE \E c \in DOMAIN calls :
                   /\ calls[c].op = "createPost"
                   /\ calls'[c] # calls[c]
                   /\ calls'[c].newId = p.id
                   /\ PrincipalIs(c, p.userId)]_vars

\* user 2 has created a post and then changed its title and content by an
\* updatePost: the post is still user 2's
C28_Witness ==
    \E c \in DOMAIN calls :
        /\ calls[c].op = "updatePost" /\ calls[c].result = "ok"
        /\ PrincipalIs(c, 2)
        /\ \E q \in PrePost(c), p \in PostById(calls[c].id) :
                /\ q.title # p.title /\ q.content # p.content
                /\ q.userId = 2 /\ p.userId = 2

\* every stored tag name is non-empty and trimmed, and no two tags have it
TagNamesWellFormed ==
    \A t \in tags :
        /\ t.name # << >>
        /\ Trim(t.name) = t.name
        /\ \A u \in tags : u.name = t.name => u = t

\* C29: in every state each stored tag name is non-empty, has no leading or
\* trailing whitespace and belongs to one tag; and a step that stores a new
\* tag is the tag.create of a callback of a createPost or updatePost call
\* whose lookup found no tag of the trimmed name, the new tag has exactly
\* that name, and no tag has it when the step is taken.
C29_TagNamesWellFormed ==
    /\ []TagNamesWellFormed
    /\ [][\A t \in tags' \ tags :
              \E c \in DOMAIN calls : \E i \in DOMAIN calls[c].cb :
                  /\ calls[c].op \in {"createPost", "updatePost"}
                  /\ calls[c].cb[i] = "create" /\ calls'[c].cb[i] = "done"
                  /\ t.name = Trim(calls[c].tagNames[i])
                  /\ t.name # << >>
                  /\ TagByName(t.name) = {}]_vars

\* the call was given "A", " a " and "A": the tags "A" and "a" are stored
\* and the second tag.create for "A", made after a lookup that found none,
\* was refused
C29_Witness ==
    \E c \in DOMAIN calls :
        /\ calls[c].tagNames = ExampleTagNames
        /\ \E i \in DOMAIN calls[c].cb : calls[c].cb[i] = "failed"
        /\ calls[c].result = "UniqueConstraint"
        /\ {t.name : t \in tags} = {<<"A">>, <<"a">>}
        /\ Cardinality(tags) = 2

\* C13: two different associations of one post never lead to tags of the
\* same name.
C13_NoDuplicateTagNamesOnPost ==
    \A a, b \in postTags :
        (a.postId = b.postId /\ a # b) =>
            \A ta, tb \in tags :
                (ta.id = a.tagId /\ tb.id = b.tagId) => ta.name # tb.name

\* a call whose tag names repeat a name got the same tag from two of its
\* callbacks, and its write of the two associations was refused
C13_Witness ==
    \E c \in DOMAIN calls :
        /\ HasRepeatedName(calls[c].tagNames)
        /\ calls[c].result = "UniqueConstraint"
        /\ \A i \in 1..Len(calls[c].cb) : calls[c].cb[i] \in {"done", "null"}
        /\ \E i, j \in 1..Len(calls[c].conn) :
                i < j /\ calls[c].conn[i] = calls[c].conn[j]

\* C14: every association references a stored post and a stored tag, and
\* once a deletePost has succeeded no association carries the deleted id.
C14_AssociationsReferenceStoredRows ==
    /\ \A pt \in postTags :
            /\ PostById(pt.postId) # {}
            /\ \E t \in tags : t.id = pt.tagId
    /\ \A c \in DOMAIN calls :
            (calls[c].op = "deletePost" /\ calls[c].result = "ok") =>
                PostById(calls[c].id) = {} /\ AssocOf(calls[c].id) = {}

\* a post that had two tags has been deleted
C14_Witness ==
    \E c \in DOMAIN calls :
        /\ calls[c].op = "deletePost" /\ calls[c].result = "ok"
        /\ Cardinality(PreTagIds(c)) = 2

\* C15: no step removes a tag or changes one: the stored tags only grow.
C15_TagsOnlyGrow ==
    [][tags \subseteq tags']_vars

\* a tag that the target post carried before an updatePost or a deletePost
\* succeeded is stored and no association references it
C15_Witness ==
    \E c \in DOMAIN calls :
        /\ calls[c].op \in {"updatePost", "deletePost"} /\ calls[c].result = "ok"
        /\ \E t \in tags :
                /\ t.id \in PreTagIds(c)
                /\ \A pt \in postTags : pt.tagId # t.id

\* the message of the error a call throws, which the caller's onError shows
\* in a toast (error.message)
ThrownMessage(op, result) ==
    IF result = "LoginRequired" THEN "LoginIsRequired"
    ELSE IF result = "NotFound" THEN "PostCannotBeFound"
    ELSE IF result = "Forbidden"
         THEN IF op = "updatePost" THEN "OnlyYourOwnPostCanBeEdited"
              ELSE "OnlyYourOwnPostCanBeDeleted"
    ELSE result

\* C21: an updatePost or deletePost by an authenticated principal on a stored
\* post of another user surfaces the same outcome as it does on an id that
\* no post has: the not-found one.
C21_ForbiddenSurfacesAsNotFound ==
    \A c \in DOMAIN calls :
        ( /\ calls[c].op \in {"updatePost", "deletePost"} /\ calls[c].pc = "done"
          /\ TruthyStr(calls[c].session)
          /\ \E p \in PrePost(c) : ~PrincipalIs(c, p.userId)
          /\ calls[c].result # "StorageError" ) =>
            ThrownMessage(calls[c].op, calls[c].result)
                = ThrownMessage(calls[c].op, "NotFound")

----------------------------------------------------------------------------
(* Properties of the ownership check (checked under OwnerSpec) *)

\* the text is a plain decimal integer: digits only, at least one
IsPlainDecimal(text) ==
    text # << >> /\ \A i \in 1..Len(text) : IsDigit(text[i])

\* call c is past its existence and ownership checks
PastChecks(c) == calls[c].pc \notin {"idle", "auth", "find"}

----------------------------------------------------------------------------
(* Properties of overlapping calls (checked under RaceSpec) *)

\* the post a createPost or updatePost call writes
TargetOf(c) == IF calls[c].op = "createPost" THEN calls[c].newId ELSE calls[c].id

\* call c is a createPost, or an updatePost by the owner of a stored post
Entitled(c) ==
    /\ calls[c].op \in {"createPost", "updatePost"}
    /\ TruthyStr(calls[c].session)
    /\ calls[c].op = "updatePost" => \E p \in PrePost(c) : PrincipalIs(c, p.userId)

\* C16: when two entitled calls on different posts both name a tag that was
\* stored when neither of them was made, both end successfully, one tag of
\* that name is stored and both posts are associated with it.
C16_TagRaceBothSucceed ==
    \A c1, c2 \in DOMAIN calls :
        \A name \in NormalizedNames(calls[c1].tagNames) :
            ( /\ c1 # c2
              /\ calls[c1].pc = "done" /\ calls[c2].pc = "done"
              /\ Entitled(c1) /\ Entitled(c2)
              /\ ~(calls[c1].op = "updatePost" /\ calls[c2].op = "updatePost"
                    /\ calls[c1].id = calls[c2].id)
              /\ ~HasRepeatedName(calls[c1].tagNames)
              /\ ~HasRepeatedName(calls[c2].tagNames)
              /\ name \in NormalizedNames(calls[c2].tagNames)
              /\ \A t \in PreStore(c1).tags \cup PreStore(c2).tags : t.name # name ) =>
                /\ calls[c1].result = "ok" /\ calls[c2].result = "ok"
                /\ Cardinality(TagByName(name)) = 1
                /\ name \in TagNamesOfPost(TargetOf(c1))
                /\ name \in TagNamesOfPost(TargetOf(c2))

\* C25: when two updatePost calls by the owner on the same post have both
\* ended successfully, the post has the tag names of one of the two calls
\* (its trimmed non-empty tagNames, no others) and the title and content of
\* that same call.
C25_UpdatesSerializable ==
    \A c1, c2 \in DOMAIN calls :
        ( /\ c1 # c2
          /\ calls[c1].op = "updatePost" /\ calls[c2].op = "updatePost"
          /\ calls[c1].id = calls[c2].id
          /\ Entitled(c1) /\ Entitled(c2)
          /\ calls[c1].result = "ok" /\ calls[c2].result = "ok" ) =>
            \E c \in {c1, c2} : \E p \in PostById(calls[c].id) :
                /\ TagNamesOfPost(p.id) = NormalizedNames(calls[c].tagNames)
                /\ p.title = calls[c].title
                /\ p.content = calls[c].content

----------------------------------------------------------------------------
(* Properties of the credential verifier (checked under AuthSpec) *)

\* the users whose email is exactly the given one, who have a stored hash,
\* and whose hash was made from the given secret
UsersVerifiedBy(credentials) ==
    {u \in users :
        /\ credentials.email # << >> /\ u.email = credentials.email[1]
        /\ u.password # << >>
        /\ credentials.password # << >>
        /\ \E salt \in Salts : u.password[1] = Hash(credentials.password[1], salt)}

\* C19: authorize returns a descriptor exactly when a user has the given
\* email, has a stored hash and the secret matches it; the descriptor holds
\* that user's id as decimal text, email, name and image. Otherwise, and when
\* the email or the secret is missing, it returns the failure value.
C19_AuthorizeIffVerified ==
    lastRead.op \in {"authorize", "signIn"} =>
        IF UsersVerifiedBy(lastRead.credentials) = {}
        THEN lastRead.res = << >>
        ELSE \E u \in UsersVerifiedBy(lastRead.credentials) :
                lastRead.res = <<[id |-> IntToText(u.id), email |-> u.email,
                                  name |-> u.name, image |-> u.image]>>

\* authorize has returned the descriptor of user 2, who has an image, while
\* another user has an email that differs only in case
C19_Witness ==
    /\ lastRead.op = "authorize" /\ lastRead.res # << >>
    /\ lastRead.res[1].id = <<"2">> /\ lastRead.res[1].image # << >>
    /\ \E u \in users :
            /\ u.email # lastRead.credentials.email[1]
            /\ LowerStr(u.email) = LowerStr(lastRead.credentials.email[1])

\* why credentials with an email and a secret are not verified: no user has
\* the email, the user has no stored hash, or the secret does not match
FailureCause(credentials) ==
    LET found == {u \in users : u.email = credentials.email[1]}
    IN  IF found = {} THEN "NoSuchUser"
        ELSE IF \E u \in found : u.password = << >> THEN "NoStoredHash"
        ELSE IF UsersVerifiedBy(credentials) = {} THEN "SecretMismatch"
        ELSE "none"

FormCredentials ==
    {[email |-> <<e>>, password |-> <<x>>] : e \in Emails, x \in Secrets}

\* C20: when a sign-in fails for one of the three causes, authorize would
\* return the same value, and the page would show the same message, for any
\* other credentials failing for any of the three causes.
C20_FailureIsUniform ==
    (lastRead.op = "signIn" /\ FailureCause(lastRead.credentials) # "none") =>
        \A other \in FormCredentials :
            FailureCause(other) # "none" =>
                /\ AuthorizeResult(other) = lastRead.res
                /\ OnSubmitToast(SignInResult(AuthorizeResult(other))) = lastRead.toast

\* a sign-in has failed on a wrong secret while, in the same User table,
\* another email belongs to a user without hash and a third to nobody
C20_Witness ==
    /\ lastRead.op = "signIn"
    /\ FailureCause(lastRead.credentials) = "SecretMismatch"
    /\ \E a, b \in FormCredentials :
            FailureCause(a) = "NoSuchUser" /\ FailureCause(b) = "NoStoredHash"

\* the sign-in the callback was called for is an OAuth sign-in whose profile
\* has an email
OAuthWithEmail ==
    /\ lastRead.op = "callbacks.signIn"
    /\ lastRead.account # << >>
    /\ lastRead.account[1].provider \in Providers \ {"credentials"}
    /\ lastRead.user.email # << >> /\ lastRead.user.email[1] # << >>

\* the users with the email of the profile, and whether one of them has an
\* account of the provider of the sign-in
ProfileUsers == {u \in users : u.email = lastRead.user.email[1]}
ProfileLinked ==
    \E u \in ProfileUsers : \E acc \in u.accounts :
        acc.provider = lastRead.account[1].provider

\* C27: the signIn callback allows an OAuth sign-in whose profile has an
\* email, whoever has that email (nobody, a user with an account of the
\* provider, a user without one), unless the user lookup failed; it denies a
\* sign-in only when the lookup failed; it allows every credentials sign-in.
C27_SignInCallbackAllows ==
    lastRead.op = "callbacks.signIn" =>
        /\ (OAuthWithEmail /\ ~lastRead.lookupFailed) => lastRead.res = TRUE
        /\ lastRead.res = FALSE => (OAuthWithEmail /\ lastRead.lookupFailed)
        /\ ( /\ lastRead.account # << >>
             /\ lastRead.account[1].provider = "credentials" ) =>
                lastRead.res = TRUE

\* the callback has allowed a github sign-in with the email of a user who
\* has a password hash and no github account, in a User table where another
\* user is linked to google
C27_Witness ==
    /\ OAuthWithEmail /\ lastRead.res = TRUE
    /\ lastRead.account[1].provider = "github"
    /\ ProfileUsers # {} /\ ~ProfileLinked
    /\ \A u \in ProfileUsers : u.password # << >> /\ u.accounts = {}
    /\ \E u \in users : u.accounts # {}

----------------------------------------------------------------------------
(* Properties of signup (checked under SignupSpec) *)

PreUsers(c) == calls[c].pre[1].users

\* signup call c was made with input its schema accepts, and the store did
\* not fail any of its statements
SoundSignup(c) ==
    /\ calls[c].op = "signup"
    /\ SignupSchemaAccepts(calls[c].name, calls[c].email, calls[c].password)
    /\ calls[c].cb # <<"failed">>

\* C23: no two users share an email; and a signup (with otherwise valid
\* input) for an email a user had when it was called returns the
\* duplicate-email failure, has created no user and has left every user of
\* before as it was.
C23_DuplicateEmailRefused ==
    /\ \A u, v \in users : u.email = v.email => u = v
    /\ \A c \in DOMAIN calls :
            ( /\ SoundSignup(c) /\ calls[c].pc = "done"
              /\ \E u \in PreUsers(c) : u.email = calls[c].email ) =>
                /\ calls[c].result = "DuplicateEmail"
                /\ calls[c].writes = 0
                /\ PreUsers(c) \subseteq users

\* a signup for the stored email has been refused while the other signup,
\* for an email differing in case only, has created a user
C23_Witness ==
    \E c, d \in DOMAIN calls :
        /\ SoundSignup(c) /\ calls[c].result = "DuplicateEmail"
        /\ \E u \in PreUsers(c) : u.email = calls[c].email
        /\ SoundSignup(d) /\ calls[d].result = "Success"
        /\ Cardinality(users) = 2

\* C26: of two signup calls for the same valid email, which no user had when
\* either was called, one returns success and the other the duplicate-email
\* failure, however their steps interleave, and one user has the email.
C26_SignupRace ==
    \A c, d \in DOMAIN calls :
        ( /\ c # d
          /\ SoundSignup(c) /\ SoundSignup(d)
          /\ calls[c].pc = "done" /\ calls[d].pc = "done"
          /\ calls[c].email = calls[d].email
          /\ \A u \in PreUsers(c) \cup PreUsers(d) : u.email # calls[c].email ) =>
            /\ {calls[c].result, calls[d].result} = {"Success", "DuplicateEmail"}
            /\ Cardinality(UserByEmail(calls[c].email)) = 1

\* both signups found the email unused, and the one whose create came second
\* was refused by the store
C26_Witness ==
    \E c, d \in DOMAIN calls :
        /\ c # d /\ SoundSignup(c) /\ SoundSignup(d)
        /\ calls[c].email = calls[d].email
        /\ calls[c].result = "Success"
        /\ calls[d].result = "DuplicateEmail" /\ calls[d].accesses = 2

=============================================================================
